---- MODULE Spec2Model ----
(***************************************************************************)
(* Model of the OCR conversion pipeline of pdf-transform.                  *)
(*                                                                         *)
(*   Spec     the pooled, batch-concurrent convertToNativeTextPDF          *)
(*            (features/ocr/services/ocrService.ts, scheduler version)     *)
(*   SpecSeq  the sequential, single-worker convertToNativeTextPDF         *)
(*                                                                         *)
(* An async function is cut at its awaits: one action per continuation.    *)
(* A percent value is kept as an exact fraction [num, den].                *)
(***************************************************************************)
EXTENDS Integers, Sequences, FiniteSets, TLC

\* ------------------------------------------------------------------ bounds
MaxPages == 4
SeqMaxPages == 18
MaxTail == 2
MaxToggles == 3
MaxMatches == 4
MaxCalls == 2
MaxKaCalls == 5
MaxRuns == 2

\* ------------------------------------------------------- program constants
NativeTextThreshold == 20
MaxPoolSize == 3
DefaultConcurrency == 2

\* -------------------------------------------------------------- text model
\* A string is a sequence of one-character strings.
Rep(c, n) == [k \in 1..n |-> c]

WhiteSpace == {" ", "\n", "\t"}

\* the characters of the samples that [\x20-\x7E\xA0-\xFF\n] matches (a tab
\* is whitespace for \s and trim, and is outside that class)
Latin1Chars == {"a", "b", "T", "#", "4", " ", "\n"}

IsWs(c) == c \in WhiteSpace

RECURSIVE TrimLeft(_)
TrimLeft(s) ==
    IF s = << >> THEN << >>
    ELSE IF IsWs(Head(s)) THEN TrimLeft(Tail(s)) ELSE s

RECURSIVE TrimRight(_)
TrimRight(s) ==
    IF s = << >> THEN << >>
    ELSE IF IsWs(s[Len(s)]) THEN TrimRight(SubSeq(s, 1, Len(s) - 1)) ELSE s

\* String.prototype.trim
Trim(s) == TrimRight(TrimLeft(s))

\* s.replace(/\s/g, "")
StripWs(s) == SelectSeq(s, LAMBDA c : ~IsWs(c))

RECURSIVE JoinItems(_)
\* items.map(it => it.str).join(" ")
JoinItems(items) ==
    IF items = << >> THEN << >>
    ELSE IF Len(items) = 1 THEN items[1]
    ELSE items[1] \o <<" ">> \o JoinItems(Tail(items))

\* tc.items.map(it => it.str).join(" ").trim()
ExistingText(items) == Trim(JoinItems(items))

HasNativeTextAtLeast(t) == Len(StripWs(t)) >= NativeTextThreshold

\* existingText.replace(/\s/g, "").length > 20
HasNativeText(t) == Len(StripWs(t)) > NativeTextThreshold

CleanTextDropsNewline(t) ==
    Trim(SelectSeq(t, LAMBDA c : c \in Latin1Chars \ {"\n"}))

\* text.replace(/[^\x20-\x7E\xA0-\xFF\n]/g, "").trim()
CleanText(t) == Trim(SelectSeq(t, LAMBDA c : c \in Latin1Chars))

\* Sample page contents (the text runs pdf.js returns for a page): no text,
\* exactly 20 non-whitespace characters in two runs, and 21 in two runs.
PageSamples ==
    { << >>,
      << Rep("a", 10), Rep("b", 10) >>,
      << Rep("a", 10) \o <<" ">>, Rep("b", 11) >> }

\* Sample recognition results: empty, and a two-line text.
OcrSamples == { << >>, <<"T", "\n", "4">> }


\* ------------------------------------------------------------------ values
NoText == <<"<none>">>
NoDoc == [returned |-> FALSE, pages |-> << >>]
NoLayer == <<"<no text layer>">>
NoError == "none"
CancelMsg == "Conversao cancelada"
NoPdfjsMsg == "PDF.js nao disponivel."
OcrInitMsg == "Falha ao iniciar OCR"
CanvasMsg == "Canvas context falhou"

\* navigator.hardwareConcurrency: 0 stands for an undefined value
HwSamples == {0, 1, 2, 4}

Min(a, b) == IF a < b THEN a ELSE b

Pages == 1..MaxPages

\* ------------------------------------------------------------------- state
VARIABLES
    pdfjsOk,        \* the pdfjs module was loaded
    hwConcurrency,  \* navigator.hardwareConcurrency
    aborted,        \* abortSignal.aborted
    abortAt,        \* where the conversion stood when the signal was set
    pc,             \* position of convertToNativeTextPDF
    outcome,        \* "none", "resolved" or "rejected"
    error,          \* message of the Error the promise rejected with
    numPages,       \* pdf.numPages, 0 until the document is loaded
    numWorkers,     \* numWorkers, 0 until the scheduler is created
    workers,        \* workers added to the scheduler
    batchStart,     \* i of the batch loop, 0 before the loop
    commitIdx,      \* index into batchResults of the page being committed
    page,           \* per page: the state of its async map callback
    completed,      \* pages of the current batch in completion order
    outDoc,         \* newPdf: the pages added so far
    result,         \* the document the promise resolved with
    progressLog,    \* the calls of onProgress
    kaStarts,       \* calls of backgroundKeepAlive.start()
    kaStops,        \* calls of backgroundKeepAlive.stop()
    terminateCalls, \* calls of scheduler.terminate()
    saveCalls,      \* calls of newPdf.save()
    seq,            \* the state of the sequential convertToNativeTextPDF
    onePage,        \* one page of the pooled conversion, with any text
    theme,          \* the useTheme hook and what it reads and writes
    fx,             \* extractFieldsFromPages: its input and its result
    ka,             \* the backgroundKeepAlive singleton and its callers
    an,             \* the usePdfAnalyzer hook and its analyze calls
    app             \* the App component: appState, file, convertedUrl

vars == << pdfjsOk, hwConcurrency, aborted, abortAt, pc, outcome, error,
           numPages, numWorkers, workers, batchStart, commitIdx, page,
           completed, outDoc, result, progressLog, kaStarts, kaStops,
           terminateCalls, saveCalls, seq, onePage,
           theme, fx, ka, an, app >>

convVars == << pdfjsOk, hwConcurrency, aborted, abortAt, pc, outcome, error,
               numPages, numWorkers, workers, batchStart, commitIdx, page,
               completed, outDoc, result, progressLog, kaStarts, kaStops,
               terminateCalls, saveCalls >>

hookVars == << fx, ka, an, app >>

\* what the sequential conversion never writes
pooledVars == << convVars, onePage, theme, hookVars >>

\* what the pooled conversion never writes
inputVars == << pdfjsOk, hwConcurrency, seq, onePage, theme, hookVars >>
abortVars == << aborted, abortAt >>
poolVars == << numPages, numWorkers, workers >>
docVars == << outDoc, result, saveCalls >>
settleVars == << pc, outcome, error, kaStops >>

Frac(n, d) == [num |-> n, den |-> d]
Whole(n) == Frac(n, 1)
FracLeq(a, b) == a.num * b.den <= b.num * a.den
FracEq(a, b) == a.num * b.den = b.num * a.den

SeqInit ==
    [ pc |-> "idle", outcome |-> "none", error |-> NoError, aborted |-> FALSE,
      numPages |-> 0, i |-> 0, pageHasText |-> FALSE,
      prevPct |-> Whole(0), lastPct |-> Whole(0), reports |-> 0,
      added |-> 0, jobs |-> 0, worker |-> FALSE,
      kaStarts |-> 0, kaStops |-> 0, terminateCalls |-> 0 ]

PgIdle ==
    [ phase |-> "idle", existing |-> NoText, text |-> NoText, jobs |-> 0,
      images |-> 0, layer |-> NoLayer ]

\* localStorage.getItem yields null when the key is absent
Null == "<null>"

\* the hook before its first render: which of the two useTheme sources is
\* built, whether window is defined, the value of localStorage's
\* "pdf-analyzer-theme", matchMedia("(prefers-color-scheme: dark)").matches,
\* whether the root element has the class "dark", the isDark the effect
\* last ran for, and the toggle() calls so far
ThemeEnv(variant, hasWindow, saved, systemDark, rootDark) ==
    [ phase |-> "unmounted", variant |-> variant, hasWindow |-> hasWindow,
      saved |-> saved, systemDark |-> systemDark, isDark |-> FALSE,
      rootDark |-> rootDark, applied |-> "none", toggles |-> 0 ]

ThemeIdle == ThemeEnv("useTheme.ts", TRUE, Null, FALSE, FALSE)

\* extractFieldsFromPages before it is called on the matches `m`
FxInput(m) ==
    [ phase |-> "called", matches |-> m, fields |-> << >>,
      summary |-> << >>, totalFound |-> 0 ]

FxIdle == FxInput(<< >>)

Convs == {1, 2}

\* the V5 singleton before any start(): whether window has an AudioContext
\* class, whether a new context starts suspended, whether navigator has
\* wakeLock; the fields of the object (audioCtx, oscillator, wakeLock and
\* keepAliveInterval as references) and what exists outside it (open audio
\* contexts, wake locks held, intervals scheduled); the conversions that
\* call it, the position of each one's start() and a pending
\* reacquireWakeLock()
KaV5(hasAudio, ctxSuspended, hasWakeLock) ==
    [ hasAudio |-> hasAudio, ctxSuspended |-> ctxSuspended,
      hasWakeLock |-> hasWakeLock,
      isActive |-> FALSE, ctxRef |-> FALSE, oscRef |-> FALSE,
      lockRef |-> "none", intervalRef |-> FALSE,
      audioOpen |-> 0, locksHeld |-> 0, intervals |-> 0,
      conv |-> [c \in Convs |-> "idle"],
      starts |-> [c \in Convs |-> "none"],
      reacquiring |-> FALSE ]

KaIdle == KaV5(TRUE, FALSE, TRUE)

NoPdfjsAnalysisMsg == "Motor PDF.js nao inicializado corretamente."
UnknownAnalysisMsg == "Erro desconhecido ao analisar PDF"

Calls == 1..MaxCalls

\* one call of analyze: where its analyzePDF stands, the message of the
\* error analyzePDF rejected with, and what the call left in the hook
NewCall == [ st |-> "unused", rejectedWith |-> Null ]

\* usePdfAnalyzer after its first render; analysis is 0 for null and k for
\* the result of the k-th call; settled lists the calls in settling order
AnMounted(hasPdfjs) ==
    [ hasPdfjs |-> hasPdfjs, analysis |-> 0, isAnalyzing |-> FALSE,
      error |-> Null, progress |-> 0, started |-> 0, settled |-> << >>,
      calls |-> [k \in Calls |-> NewCall] ]

AnIdle == AnMounted(TRUE)

Runs == 1..MaxRuns

AnalysisErrMsg == "Erro desconhecido ao analisar o PDF."
ConvertErrMsg == "Erro na conversao OCR."
NotPdfMsg == "Por favor, selecione um arquivo PDF valido."

\* App after its first render: file, analysis and convertedUrl are 0 for
\* null or "" and k for the k-th selected file, its analysis and the URL
\* of its converted Blob; jobs holds the analyzePDF and the
\* convertToNativeTextPDF promise of each file; untilNewFile is set by
\* reset() and cleared when a file is selected
AppIdle ==
    [ state |-> "idle", file |-> 0, analysis |-> 0, error |-> "",
      convertedUrl |-> 0, selected |-> 0, untilNewFile |-> FALSE,
      jobs |-> [k \in Runs |-> [analysis |-> "none", convert |-> "none"]] ]

NewPage ==
    [ st |-> "pending", existing |-> NoText, text |-> NoText,
      fetched |-> 0, rasterized |-> 0, jobs |-> 0, canvas |-> "none" ]

InitConversion ==
    /\ pdfjsOk \in BOOLEAN
    /\ hwConcurrency \in HwSamples
    /\ aborted = FALSE
    /\ abortAt = [pc |-> "never", batch |-> 0]
    /\ pc = "idle"
    /\ outcome = "none"
    /\ error = NoError
    /\ numPages = 0
    /\ numWorkers = 0
    /\ workers = 0
    /\ batchStart = 0
    /\ commitIdx = 0
    /\ page = [p \in Pages |-> NewPage]
    /\ completed = << >>
    /\ outDoc = << >>
    /\ result = NoDoc
    /\ progressLog = << >>
    /\ kaStarts = 0
    /\ kaStops = 0
    /\ terminateCalls = 0
    /\ saveCalls = 0
    /\ seq = SeqInit
    /\ onePage = PgIdle

HooksIdle ==
    /\ fx = FxIdle
    /\ ka = KaIdle
    /\ an = AnIdle
    /\ app = AppIdle

Init ==
    /\ InitConversion
    /\ theme = ThemeIdle
    /\ HooksIdle

\* ---------------------------------------------------------------- helpers
\* onProgress(pct, message); committed is the length of newPdf at the call
Report(log, pct, kind, committed) ==
    Append(log, [pct |-> pct, committed |-> committed, kind |-> kind])

\* Math.min(navigator.hardwareConcurrency || 2, 3)
NumWorkers(hc) == Min(IF hc = 0 THEN DefaultConcurrency ELSE hc, MaxPoolSize)

CurrentBatchOversized(i) ==
    [ j \in 1..Min(numWorkers + 1, numPages - i + 1) |-> i + j - 1 ]

CurrentBatchShort(i) ==
    [ j \in 1..Min(numWorkers, numPages - i) |-> i + j - 1 ]

\* for (let j = 0; j < batchSize && (i + j) <= pdf.numPages; j++) push(i + j)
CurrentBatch(i) ==
    [ j \in 1..Min(numWorkers, numPages - i + 1) |-> i + j - 1 ]

InBatchOrLater(p, i) == p >= i /\ p <= numPages

\* pageNum is an element of currentBatch
InBatch(p, i) == \E j \in 1..Len(CurrentBatch(i)) : CurrentBatch(i)[j] = p

FinallyMissing == UNCHANGED kaStops

\* the finally block
Finally == kaStops' = kaStops + 1

\* an Error thrown inside the try block: the promise rejects, finally runs
Throw(msg) ==
    /\ pc' = "settled"
    /\ outcome' = "rejected"
    /\ error' = msg
    /\ Finally


\* --------------------------------------------------------- the batch loop
\* 10 + (i / pdf.numPages) * 85
BatchPercent(i) == Frac(10 * numPages + 85 * i, numPages)

LoopCondFirstBatch(i) == i <= 1

LoopCondStrict(i) == i < numPages

\* i <= pdf.numPages
LoopCond(i) == i <= numPages

AbortIgnored == FALSE

\* abortSignal?.aborted
AbortRequested == aborted

\* One evaluation of the head of the batch loop with loop variable i, and of
\* everything that runs synchronously after it: the cancellation check, the
\* construction of currentBatch, the progress report and the synchronous
\* prefix of every map callback (pdf.getPage is called for each page of the
\* batch); or, when the loop is over, the call of scheduler.terminate().
\* len is the length of newPdf and pg the state of the pages at that moment.
LoopHead(i, len, pg) ==
    /\ batchStart' = i
    /\ IF LoopCond(i)
       THEN IF AbortRequested
            THEN /\ Throw(CancelMsg)
                 /\ page' = pg
                 /\ UNCHANGED << completed, progressLog, terminateCalls >>
            ELSE /\ pc' = "awaitBatch"
                 /\ progressLog' =
                        Report(progressLog, BatchPercent(i), "batch", len)
                 /\ page' = [ p \in Pages |->
                        IF InBatch(p, i)
                        THEN [pg[p] EXCEPT !.st = "fetching",
                                           !.fetched = @ + 1]
                        ELSE pg[p] ]
                 /\ completed' = << >>
                 /\ UNCHANGED << outcome, error, kaStops, terminateCalls >>
       ELSE /\ pc' = "terminating"
            /\ terminateCalls' = terminateCalls + 1
            /\ page' = pg
            /\ UNCHANGED << outcome, error, kaStops, completed, progressLog >>

\* ------------------------------------------------ convertToNativeTextPDF
\* The call: the pdfjs check, then backgroundKeepAlive.start() is awaited.
Convert ==
    /\ pc = "idle"
    /\ IF pdfjsOk
       THEN /\ kaStarts' = kaStarts + 1
            /\ pc' = "starting"
            /\ UNCHANGED << outcome, error >>
       ELSE /\ pc' = "settled"
            /\ outcome' = "rejected"
            /\ error' = NoPdfjsMsg
            /\ UNCHANGED kaStarts
    /\ UNCHANGED << inputVars, abortVars, poolVars, docVars, batchStart,
                    commitIdx, page, completed, progressLog, kaStops,
                    terminateCalls >>

\* start() resolved: onProgress(2), file.arrayBuffer() and getDocument
KeepAliveStarted ==
    /\ pc = "starting"
    /\ pc' = "loading"
    /\ progressLog' = Report(progressLog, Whole(2), "setup", Len(outDoc))
    /\ UNCHANGED << inputVars, abortVars, poolVars, docVars, batchStart,
                    commitIdx, page, completed, outcome, error, kaStarts,
                    kaStops, terminateCalls >>

\* the document is loaded: onProgress(5), createScheduler, first worker
LoadDone ==
    /\ pc = "loading"
    /\ \E n \in 1..MaxPages : numPages' = n
    /\ numWorkers' = NumWorkers(hwConcurrency)
    /\ pc' = "creatingWorker"
    /\ progressLog' = Report(progressLog, Whole(5), "setup", Len(outDoc))
    /\ UNCHANGED << inputVars, abortVars, workers, docVars, batchStart,
                    commitIdx, page, completed, outcome, error, kaStarts,
                    kaStops, terminateCalls >>

\* file.arrayBuffer() or getDocument(...).promise rejects
LoadFail ==
    /\ pc = "loading"
    /\ Throw("getDocument")
    /\ UNCHANGED << inputVars, abortVars, poolVars, docVars, batchStart,
                    commitIdx, page, completed, progressLog, kaStarts,
                    terminateCalls >>

\* createOCRWorker() resolved: scheduler.addWorker(worker); after the last
\* one onProgress(8) and PDFDocument.create()
WorkerCreated ==
    /\ pc = "creatingWorker"
    /\ workers' = workers + 1
    /\ IF workers + 1 < numWorkers
       THEN UNCHANGED << pc, progressLog >>
       ELSE /\ pc' = "preparing"
            /\ progressLog' =
                   Report(progressLog, Whole(8), "setup", Len(outDoc))
    /\ UNCHANGED << inputVars, abortVars, numPages, numWorkers, docVars,
                    batchStart, commitIdx, page, completed, outcome, error,
                    kaStarts, kaStops, terminateCalls >>

\* createOCRWorker() rejects: throw new Error(`Falha ao iniciar OCR: ...`)
WorkerFail ==
    /\ pc = "creatingWorker"
    /\ Throw(OcrInitMsg)
    /\ UNCHANGED << inputVars, abortVars, poolVars, docVars, batchStart,
                    commitIdx, page, completed, progressLog, kaStarts,
                    terminateCalls >>

\* PDFDocument.create() and embedFont resolved: the loop starts with i = 1
DocReady ==
    /\ pc = "preparing"
    /\ LoopHead(1, Len(outDoc), page)
    /\ UNCHANGED << inputVars, abortVars, poolVars, docVars, commitIdx,
                    kaStarts >>


\* ------------------------------------------- the map callback of one page
FailTaskNoReject(p, msg) ==
    /\ page' = [page EXCEPT ![p].st = "failed"]
    /\ UNCHANGED settleVars

\* A map callback throws: its promise rejects.  The first rejection rejects
\* Promise.all, and with it the conversion; later ones are ignored.
FailTask(p, msg) ==
    /\ page' = [page EXCEPT ![p].st = "failed"]
    /\ IF outcome = "none"
       THEN Throw(msg)
       ELSE UNCHANGED settleVars

taskFrame ==
    << inputVars, abortVars, poolVars, docVars, batchStart, commitIdx,
       progressLog, kaStarts, terminateCalls >>

\* pdf.getPage resolved: the canvas is created and page.render is called
PageFetched(p) ==
    /\ page[p].st = "fetching"
    /\ page' = [page EXCEPT ![p].st = "rendering",
                            ![p].canvas = "live",
                            ![p].rasterized = @ + 1]
    /\ UNCHANGED << taskFrame, settleVars, completed >>

\* pdf.getPage rejects
PageFetchFail(p) ==
    /\ page[p].st = "fetching"
    /\ FailTask(p, "getPage")
    /\ UNCHANGED << taskFrame, completed >>

\* canvas.getContext returns null: throw new Error("Canvas context falhou")
CanvasFail(p) ==
    /\ page[p].st = "fetching"
    /\ page' = [page EXCEPT ![p].st = "failed", ![p].canvas = "live"]
    /\ IF outcome = "none" THEN Throw(CanvasMsg) ELSE UNCHANGED settleVars
    /\ UNCHANGED << taskFrame, completed >>

\* page.render(...).promise resolved: page.getTextContent() is called
RenderDone(p) ==
    /\ page[p].st = "rendering"
    /\ page' = [page EXCEPT ![p].st = "reading"]
    /\ UNCHANGED << taskFrame, settleVars, completed >>

\* page.render(...).promise rejects
RenderFail(p) ==
    /\ page[p].st = "rendering"
    /\ FailTask(p, "render")
    /\ UNCHANGED << taskFrame, completed >>

\* getTextContent resolved with the runs `items`: the native-text check, and
\* either the callback returns the native text or the canvas goes to the pool
TextRead(p, items) ==
    /\ page[p].st = "reading"
    /\ LET existingText == ExistingText(items) IN
       IF HasNativeText(existingText)
       THEN /\ page' = [page EXCEPT ![p].st = "resolved",
                                    ![p].existing = existingText,
                                    ![p].text = existingText]
            /\ completed' = Append(completed, p)
       ELSE /\ page' = [page EXCEPT ![p].st = "recognizing",
                                    ![p].existing = existingText,
                                    ![p].jobs = @ + 1]
            /\ UNCHANGED completed
    /\ UNCHANGED << taskFrame, settleVars >>

\* page.getTextContent() rejects
TextReadFail(p) ==
    /\ page[p].st = "reading"
    /\ FailTask(p, "getTextContent")
    /\ UNCHANGED << taskFrame, completed >>

\* scheduler.addJob('recognize', canvas) resolved with res.data.text = t
RecognizeDone(p, t) ==
    /\ page[p].st = "recognizing"
    /\ page' = [page EXCEPT ![p].st = "resolved", ![p].text = t]
    /\ completed' = Append(completed, p)
    /\ UNCHANGED << taskFrame, settleVars >>

\* scheduler.addJob rejects
RecognizeFail(p) ==
    /\ page[p].st = "recognizing"
    /\ FailTask(p, "recognize")
    /\ UNCHANGED << taskFrame, completed >>

\* ------------------------------------------------------------- the commit
BatchResultsByCompletion == completed

\* what Promise.all resolves with: one result per page, in the order of
\* currentBatch
BatchResults == CurrentBatch(batchStart)

\* newPdf.addPage([viewport.width, viewport.height])
AddPage(doc, p) == Append(doc, [pageNum |-> p, images |-> 0, layer |-> NoLayer])

TextLayerAlways(text) == CleanText(text)

\* the text drawn on the page, if any
TextLayer(text) ==
    IF Trim(text) # << >>
    THEN LET cleanText == CleanText(text) IN
         IF cleanText # << >> THEN cleanText ELSE NoLayer
    ELSE NoLayer

BatchResolvedChecksAbort ==
    /\ pc = "awaitBatch"
    /\ \A p \in Pages : InBatch(p, batchStart) => page[p].st = "resolved"
    /\ IF aborted
       THEN /\ Throw(CancelMsg)
            /\ UNCHANGED << commitIdx, outDoc >>
       ELSE /\ pc' = "embedding"
            /\ commitIdx' = 1
            /\ outDoc' = AddPage(outDoc, BatchResults[1])
            /\ UNCHANGED << outcome, error, kaStops >>
    /\ UNCHANGED << inputVars, abortVars, poolVars, result, saveCalls,
                    batchStart, page, completed, progressLog, kaStarts,
                    terminateCalls >>

\* Promise.all resolved: the commit loop starts, the first page is added and
\* its canvas.toBlob is called
BatchResolved ==
    /\ pc = "awaitBatch"
    /\ \A p \in Pages : InBatch(p, batchStart) => page[p].st = "resolved"
    /\ pc' = "embedding"
    /\ commitIdx' = 1
    /\ outDoc' = AddPage(outDoc, BatchResults[1])
    /\ UNCHANGED << inputVars, abortVars, poolVars, result, saveCalls,
                    batchStart, page, completed, progressLog, outcome, error,
                    kaStarts, kaStops, terminateCalls >>

\* toBlob, arrayBuffer and embedJpg resolved: drawImage, drawText, the canvas
\* is released; then the next page of the batch is added, or the loop goes on
EmbedDone ==
    /\ pc = "embedding"
    /\ LET p == BatchResults[commitIdx]
           drawn == [outDoc EXCEPT ![Len(outDoc)] =
                        [@ EXCEPT !.images = @ + 1,
                                  !.layer = TextLayer(page[p].text)]]
           released == [page EXCEPT ![p].canvas = "released"]
       IN  IF commitIdx < Len(BatchResults)
           THEN /\ outDoc' = AddPage(drawn, BatchResults[commitIdx + 1])
                /\ commitIdx' = commitIdx + 1
                /\ page' = released
                /\ UNCHANGED << settleVars, batchStart, completed,
                                progressLog, terminateCalls >>
           ELSE /\ outDoc' = drawn
                /\ commitIdx' = 0
                /\ LoopHead(batchStart + numWorkers, Len(drawn), released)
    /\ UNCHANGED << inputVars, abortVars, poolVars, result, saveCalls,
                    kaStarts >>

\* toBlob yields null, or embedJpg rejects
EmbedFail ==
    /\ pc = "embedding"
    /\ Throw("embedJpg")
    /\ UNCHANGED << inputVars, abortVars, poolVars, docVars, batchStart,
                    commitIdx, page, completed, progressLog, kaStarts,
                    terminateCalls >>

\* the image is embedded and drawn, then newPage.drawText throws (the font
\* cannot encode a character): nothing catches it in the commit loop
DrawTextFail ==
    /\ pc = "embedding"
    /\ TextLayer(page[BatchResults[commitIdx]].text) # NoLayer
    /\ outDoc' = [outDoc EXCEPT ![Len(outDoc)].images = @ + 1]
    /\ Throw("drawText")
    /\ UNCHANGED << inputVars, abortVars, poolVars, result, saveCalls,
                    batchStart, commitIdx, page, completed, progressLog,
                    kaStarts, terminateCalls >>

\* ------------------------------------------------------------ finalization
\* scheduler.terminate() resolved: onProgress(97), newPdf.save() is called
TerminateDone ==
    /\ pc = "terminating"
    /\ pc' = "saving"
    /\ progressLog' = Report(progressLog, Whole(97), "final", Len(outDoc))
    /\ saveCalls' = saveCalls + 1
    /\ UNCHANGED << inputVars, abortVars, poolVars, outDoc, result,
                    batchStart, commitIdx, page, completed, outcome, error,
                    kaStarts, kaStops, terminateCalls >>

\* save() resolved: onProgress(100), the Blob is returned, finally runs
SaveDone ==
    /\ pc = "saving"
    /\ pc' = "settled"
    /\ outcome' = "resolved"
    /\ result' = [returned |-> TRUE, pages |-> outDoc]
    /\ progressLog' = Report(progressLog, Whole(100), "done", Len(outDoc))
    /\ Finally
    /\ UNCHANGED << inputVars, abortVars, poolVars, outDoc, saveCalls,
                    batchStart, commitIdx, page, completed, error, kaStarts,
                    terminateCalls >>

SaveFailAfterReport ==
    /\ pc = "saving"
    /\ progressLog' = Report(progressLog, Whole(100), "done", Len(outDoc))
    /\ Throw("save")
    /\ UNCHANGED << inputVars, abortVars, poolVars, docVars, batchStart,
                    commitIdx, page, completed, kaStarts, terminateCalls >>

\* save() rejects
SaveFail ==
    /\ pc = "saving"
    /\ Throw("save")
    /\ UNCHANGED << inputVars, abortVars, poolVars, docVars, batchStart,
                    commitIdx, page, completed, progressLog, kaStarts,
                    terminateCalls >>

\* ------------------------------------------------------------ environment
\* the caller aborts the AbortController
Abort ==
    /\ ~aborted
    /\ outcome = "none"
    /\ aborted' = TRUE
    /\ abortAt' = [pc |-> pc, batch |-> batchStart]
    /\ UNCHANGED << inputVars, poolVars, docVars, settleVars, batchStart,
                    commitIdx, page, completed, progressLog, kaStarts,
                    terminateCalls >>

Next ==
    \/ Convert
    \/ KeepAliveStarted
    \/ LoadDone
    \/ LoadFail
    \/ WorkerCreated
    \/ WorkerFail
    \/ DocReady
    \/ \E p \in Pages : PageFetched(p)
    \/ \E p \in Pages : PageFetchFail(p)
    \/ \E p \in Pages : CanvasFail(p)
    \/ \E p \in Pages : RenderDone(p)
    \/ \E p \in Pages : RenderFail(p)
    \/ \E p \in Pages : \E items \in PageSamples : TextRead(p, items)
    \/ \E p \in Pages : TextReadFail(p)
    \/ \E p \in Pages : \E t \in OcrSamples : RecognizeDone(p, t)
    \/ \E p \in Pages : RecognizeFail(p)
    \/ BatchResolved
    \/ EmbedDone
    \/ EmbedFail
    \/ DrawTextFail
    \/ TerminateDone
    \/ SaveDone
    \/ SaveFail
    \/ Abort

Spec == Init /\ [][Next]_vars


\* ============================== the sequential convertToNativeTextPDF
\* One worker, one page at a time.  seq holds the state of the function; of
\* the pages only the current one is kept.

\* onProgress(pct, message)
SeqReport(s, pct) ==
    [s EXCEPT !.prevPct = s.lastPct, !.lastPct = pct, !.reports = @ + 1]

\* an Error thrown inside the try block; finally calls stop()
SeqThrow(s, msg) ==
    [s EXCEPT !.pc = "settled", !.outcome = "rejected", !.error = msg,
              !.kaStops = @ + 1]

\* const base = 10 + ((i - 1) / pdf.numPages) * 85, plus `add`
SeqBase(s, i, add) ==
    Frac(10 * s.numPages + 85 * (i - 1) + add * s.numPages, s.numPages)

\* the head of the page loop with loop variable i: the cancellation check,
\* onProgress(base) and pdf.getPage(i); after the loop, worker.terminate()
SeqLoopHead(s, i) ==
    IF i <= s.numPages
    THEN IF s.aborted
         THEN SeqThrow([s EXCEPT !.i = i], CancelMsg)
         ELSE [SeqReport(s, SeqBase(s, i, 0)) EXCEPT !.i = i, !.pc = "fetching"]
    ELSE [s EXCEPT !.i = i, !.pc = "terminating",
                   !.terminateCalls = @ + 1]

\* the call: backgroundKeepAlive.start(), onProgress(2), file.arrayBuffer()
SeqConvert ==
    /\ seq.pc = "idle"
    /\ seq' = [SeqReport(seq, Whole(2)) EXCEPT !.pc = "loading",
                                                !.kaStarts = @ + 1]
    /\ UNCHANGED pooledVars

\* the document is loaded: onProgress(5), createOCRWorker is called
SeqLoadDone ==
    /\ seq.pc = "loading"
    /\ \E n \in 1..SeqMaxPages :
          seq' = [SeqReport(seq, Whole(5)) EXCEPT !.pc = "creatingWorker",
                                                   !.numPages = n]
    /\ UNCHANGED pooledVars

\* file.arrayBuffer() or getDocument rejects
SeqLoadFail ==
    /\ seq.pc = "loading"
    /\ seq' = SeqThrow(seq, "getDocument")
    /\ UNCHANGED pooledVars

\* createOCRWorker resolved: onProgress(8), PDFDocument.create()
SeqWorkerCreated ==
    /\ seq.pc = "creatingWorker"
    /\ seq' = [SeqReport(seq, Whole(8)) EXCEPT !.pc = "preparing",
                                                !.worker = TRUE]
    /\ UNCHANGED pooledVars

\* createOCRWorker rejects
SeqWorkerFail ==
    /\ seq.pc = "creatingWorker"
    /\ seq' = SeqThrow(seq, OcrInitMsg)
    /\ UNCHANGED pooledVars

\* the output document and its font are ready: the loop starts
SeqDocReady ==
    /\ seq.pc = "preparing"
    /\ seq' = SeqLoopHead(seq, 1)
    /\ UNCHANGED pooledVars

\* pdf.getPage(i) resolved: page.getTextContent() is called
SeqPageFetched ==
    /\ seq.pc = "fetching"
    /\ seq' = [seq EXCEPT !.pc = "reading"]
    /\ UNCHANGED pooledVars

\* getTextContent resolved with the runs `items`: the native-text check; the
\* canvas is created and page.render is called
SeqTextRead(items) ==
    /\ seq.pc = "reading"
    /\ seq' = [seq EXCEPT !.pc = "rendering",
                          !.pageHasText = HasNativeText(ExistingText(items))]
    /\ UNCHANGED pooledVars

\* the page is rendered: a native-text page reports base + 5 and goes on to
\* addPage and canvas.toBlob; another page reports base + 2 and is recognized
SeqRenderDone ==
    /\ seq.pc = "rendering"
    /\ seq' = IF seq.pageHasText
              THEN [SeqReport(seq, SeqBase(seq, seq.i, 5))
                       EXCEPT !.pc = "embedding", !.added = @ + 1]
              ELSE [SeqReport(seq, SeqBase(seq, seq.i, 2))
                       EXCEPT !.pc = "recognizing", !.jobs = @ + 1]
    /\ UNCHANGED pooledVars

\* worker.recognize(canvas) resolved: addPage and canvas.toBlob
SeqRecognizeDone ==
    /\ seq.pc = "recognizing"
    /\ seq' = [seq EXCEPT !.pc = "embedding", !.added = @ + 1]
    /\ UNCHANGED pooledVars

\* the image is embedded and the text layer drawn: next iteration
SeqEmbedDone ==
    /\ seq.pc = "embedding"
    /\ seq' = SeqLoopHead(seq, seq.i + 1)
    /\ UNCHANGED pooledVars

\* getPage, getTextContent, render, recognize or embedJpg rejects
SeqPageFail ==
    /\ seq.pc \in {"fetching", "reading", "rendering", "recognizing",
                   "embedding"}
    /\ seq' = SeqThrow(seq, seq.pc)
    /\ UNCHANGED pooledVars

\* worker.terminate() resolved: onProgress(97), newPdf.save()
SeqTerminateDone ==
    /\ seq.pc = "terminating"
    /\ seq' = [SeqReport(seq, Whole(97)) EXCEPT !.pc = "saving"]
    /\ UNCHANGED pooledVars

\* save() resolved: onProgress(100), the Blob is returned, finally runs
SeqSaveDone ==
    /\ seq.pc = "saving"
    /\ seq' = [SeqReport(seq, Whole(100)) EXCEPT !.pc = "settled",
                                                  !.outcome = "resolved",
                                                  !.kaStops = @ + 1]
    /\ UNCHANGED pooledVars

\* save() rejects
SeqSaveFail ==
    /\ seq.pc = "saving"
    /\ seq' = SeqThrow(seq, "save")
    /\ UNCHANGED pooledVars

\* the caller aborts the AbortController
SeqAbort ==
    /\ ~seq.aborted
    /\ seq.outcome = "none"
    /\ seq' = [seq EXCEPT !.aborted = TRUE]
    /\ UNCHANGED pooledVars

InitSeq ==
    /\ Init
    /\ pdfjsOk
    /\ hwConcurrency = 1

NextSeq ==
    \/ SeqConvert
    \/ SeqLoadDone
    \/ SeqLoadFail
    \/ SeqWorkerCreated
    \/ SeqWorkerFail
    \/ SeqDocReady
    \/ SeqPageFetched
    \/ \E items \in PageSamples : SeqTextRead(items)
    \/ SeqRenderDone
    \/ SeqRecognizeDone
    \/ SeqEmbedDone
    \/ SeqPageFail
    \/ SeqTerminateDone
    \/ SeqSaveDone
    \/ SeqSaveFail
    \/ SeqAbort

SpecSeq == InitSeq /\ [][NextSeq]_vars

\* ===================================== one page, with text of any content
\* The path of one page through the pooled conversion (its map callback and
\* its turn in the commit loop), for page texts and recognition results
\* over an alphabet that has whitespace, a tab and a character outside
\* Latin-1.
RichChars == {"a", " ", "\n", "\t", "€"}

Tails == UNION { [1..n -> RichChars] : n \in 0..MaxTail }

RichPrefixes == { << >>, Rep("a", 20), Rep("€", 21) }

\* the runs of a page: a prefix run and a tail run
RichItems == { << pre, t >> : pre \in RichPrefixes, t \in Tails }

\* getTextContent resolved with the runs `items`: the native-text check
PgTextRead(items) ==
    /\ onePage.phase = "idle"
    /\ LET existingText == ExistingText(items) IN
       onePage' = IF HasNativeText(existingText)
             THEN [onePage EXCEPT !.phase = "resolved",
                             !.existing = existingText,
                             !.text = existingText]
             ELSE [onePage EXCEPT !.phase = "recognizing",
                             !.existing = existingText,
                             !.jobs = @ + 1]
    /\ UNCHANGED << convVars, seq, theme, hookVars >>

\* scheduler.addJob resolved with res.data.text = t
PgRecognizeDone(t) ==
    /\ onePage.phase = "recognizing"
    /\ onePage' = [onePage EXCEPT !.phase = "resolved", !.text = t]
    /\ UNCHANGED << convVars, seq, theme, hookVars >>

\* the page's turn in the commit loop: addPage, canvas.toBlob is called
PgAddPage ==
    /\ onePage.phase = "resolved"
    /\ onePage' = [onePage EXCEPT !.phase = "embedding"]
    /\ UNCHANGED << convVars, seq, theme, hookVars >>

\* embedJpg resolved: drawImage, drawText
PgEmbedDone ==
    /\ onePage.phase = "embedding"
    /\ onePage' = [onePage EXCEPT !.phase = "committed",
                        !.images = @ + 1,
                        !.layer = TextLayer(onePage.text)]
    /\ UNCHANGED << convVars, seq, theme, hookVars >>

\* toBlob yields null or embedJpg rejects
PgEmbedFail ==
    /\ onePage.phase = "embedding"
    /\ onePage' = [onePage EXCEPT !.phase = "failed"]
    /\ UNCHANGED << convVars, seq, theme, hookVars >>

\* drawImage, then drawText throws
PgDrawTextFail ==
    /\ onePage.phase = "embedding"
    /\ TextLayer(onePage.text) # NoLayer
    /\ onePage' = [onePage EXCEPT !.phase = "failed", !.images = @ + 1]
    /\ UNCHANGED << convVars, seq, theme, hookVars >>

InitPage ==
    /\ Init
    /\ pdfjsOk
    /\ hwConcurrency = 1

NextPage ==
    \/ \E items \in RichItems : PgTextRead(items)
    \/ \E t \in Tails : PgRecognizeDone(t)
    \/ PgAddPage
    \/ PgEmbedDone
    \/ PgEmbedFail
    \/ PgDrawTextFail

SpecPage == InitPage /\ [][NextPage]_vars

\* ================================================================ useTheme
ThemeVariants == {"useTheme.ts", "part_001"}

SavedSamples == {Null, "", "dark", "light", "blue"}

\* without window there is neither localStorage nor matchMedia nor document
ThemeInputs ==
    { ThemeEnv(v, TRUE, s, sys, r) :
        v \in ThemeVariants, s \in SavedSamples,
        sys \in BOOLEAN, r \in BOOLEAN }
    \cup { ThemeEnv(v, FALSE, Null, FALSE, FALSE) : v \in ThemeVariants }

\* if (saved): null and the empty string are falsy
Truthy(s) == s \notin {Null, ""}

\* the useState initializer
InitialIsDark(t) ==
    IF t.hasWindow
    THEN IF Truthy(t.saved)
         THEN t.saved = "dark"
         ELSE IF t.variant = "useTheme.ts" THEN t.systemDark ELSE FALSE
    ELSE FALSE

ThemeName(dark) == IF dark THEN "dark" ELSE "light"

\* first render: useState runs its initializer
ThemeMount ==
    /\ theme.phase = "unmounted"
    /\ theme' = [theme EXCEPT !.phase = "mounted",
                              !.isDark = InitialIsDark(theme)]
    /\ UNCHANGED << convVars, seq, onePage, hookVars >>

ThemeEffectClassOnly ==
    /\ theme.phase = "mounted"
    /\ theme.hasWindow
    /\ theme.applied # ThemeName(theme.isDark)
    /\ theme' = [theme EXCEPT !.rootDark = theme.isDark,
                              !.applied = ThemeName(theme.isDark)]
    /\ UNCHANGED << convVars, seq, onePage, hookVars >>

\* useEffect(..., [isDark]): runs after the first render and after a
\* render in which isDark differs from the one it last ran for
ThemeEffect ==
    /\ theme.phase = "mounted"
    /\ theme.hasWindow
    /\ theme.applied # ThemeName(theme.isDark)
    /\ theme' = [theme EXCEPT !.rootDark = theme.isDark,
                              !.saved = ThemeName(theme.isDark),
                              !.applied = ThemeName(theme.isDark)]
    /\ UNCHANGED << convVars, seq, onePage, hookVars >>

\* toggle(): setIsDark((prev) => !prev)
ThemeToggle ==
    /\ theme.phase = "mounted"
    /\ theme.toggles < MaxToggles
    /\ theme' = [theme EXCEPT !.isDark = ~theme.isDark,
                              !.toggles = @ + 1]
    /\ UNCHANGED << convVars, seq, onePage, hookVars >>

InitTheme ==
    /\ InitConversion
    /\ pdfjsOk
    /\ hwConcurrency = 1
    /\ theme \in ThemeInputs
    /\ HooksIdle

NextTheme ==
    \/ ThemeMount
    \/ ThemeEffect
    \/ ThemeToggle

SpecTheme == InitTheme /\ [][NextTheme]_vars

\* ================================================== extractFieldsFromPages
FieldTypes ==
    {"cpf", "cnpj", "email", "telefone", "data", "valor_monetario", "url"}

\* the accepted matches of a scan, as the calls of addField they cause:
\* two CPFs and an e-mail on page 1 or 2
MatchSamples ==
    { [type |-> h[1], value |-> h[2], pageNumber |-> n] :
        h \in { <<"cpf", "529.982.247-25">>, <<"cpf", "111.444.777-35">>,
                <<"email", "a@b.co">> },
        n \in {1, 2} }

FxInputs ==
    { FxInput(m) : m \in UNION { [1..n -> MatchSamples] : n \in 0..MaxMatches } }

\* fieldMap.has(`${type}::${value}`): the position of the entry, 0 if none
FieldIndex(map, type, value) ==
    IF \E i \in 1..Len(map) : map[i].type = type /\ map[i].value = value
    THEN CHOOSE i \in 1..Len(map) : map[i].type = type /\ map[i].value = value
    ELSE 0

Includes(sq, x) == \E i \in 1..Len(sq) : sq[i] = x

AddFieldPushesAlways(map, type, value, pageNumber) ==
    LET i == FieldIndex(map, type, value) IN
    IF i # 0
    THEN [map EXCEPT ![i].count = @ + 1,
                     ![i].pages = Append(@, pageNumber)]
    ELSE Append(map, [type |-> type, value |-> value, count |-> 1,
                      pages |-> << pageNumber >>])

\* addField(type, value, pageNumber); the Map keeps insertion order
AddField(map, type, value, pageNumber) ==
    LET i == FieldIndex(map, type, value) IN
    IF i # 0
    THEN [map EXCEPT ![i].count = @ + 1,
                     ![i].pages = IF Includes(@, pageNumber)
                                  THEN @ ELSE Append(@, pageNumber)]
    ELSE Append(map, [type |-> type, value |-> value, count |-> 1,
                      pages |-> << pageNumber >>])

\* the loop over the pages and their matches, from the k-th match on
RECURSIVE ScanMatches(_, _, _)
ScanMatches(map, m, k) ==
    IF k > Len(m) THEN map
    ELSE ScanMatches(AddField(map, m[k].type, m[k].value, m[k].pageNumber),
                     m, k + 1)

\* for (const f of fields) summary[f.type]++
RECURSIVE Summarize(_, _, _)
Summarize(summary, fields, k) ==
    IF k > Len(fields) THEN summary
    ELSE Summarize([summary EXCEPT ![fields[k].type] = @ + 1], fields, k + 1)

\* extractFieldsFromPages(pagesText)
ExtractFields ==
    /\ fx.phase = "called"
    /\ LET fields == ScanMatches(<< >>, fx.matches, 1) IN
       fx' = [fx EXCEPT !.phase = "returned",
                        !.fields = fields,
                        !.totalFound = Len(fields),
                        !.summary = Summarize([t \in FieldTypes |-> 0],
                                              fields, 1)]
    /\ UNCHANGED << convVars, seq, onePage, theme, ka, an, app >>

InitFields ==
    /\ InitConversion
    /\ pdfjsOk
    /\ hwConcurrency = 1
    /\ theme = ThemeIdle
    /\ fx \in FxInputs
    /\ ka = KaIdle
    /\ an = AnIdle
    /\ app = AppIdle

NextFields == ExtractFields

SpecFields == InitFields /\ [][NextFields]_vars

\* ========================================== usePdfAnalyzer and analyzePDF
\* messages of the errors file.arrayBuffer(), getDocument and the page
\* reads reject with; one has no message
ErrSamples == {"Falha ao abrir PDF", ""}

AnFrame == << convVars, seq, onePage, theme, fx, ka, app >>

\* analyze(file): the setters before the try, then analyzePDF up to its
\* first await (onProgress(5)), or its throw when pdfjs is missing
Analyze ==
    /\ an.started < MaxCalls
    /\ LET k == an.started + 1 IN
       an' = [an EXCEPT !.started = k,
                        !.isAnalyzing = TRUE,
                        !.error = Null,
                        !.analysis = 0,
                        !.progress = IF an.hasPdfjs THEN 5 ELSE 0,
                        !.calls[k].st =
                            IF an.hasPdfjs THEN "buffer" ELSE "thrown"]
    /\ UNCHANGED AnFrame

\* file.arrayBuffer() resolved: onProgress(10), getDocument is called
AnBufferDone(k) ==
    /\ an.calls[k].st = "buffer"
    /\ an' = [an EXCEPT !.calls[k].st = "open", !.progress = 10]
    /\ UNCHANGED AnFrame

\* getDocument resolved: onProgress(15) and the reads of the pages begin
AnOpenDone(k) ==
    /\ an.calls[k].st = "open"
    /\ an' = [an EXCEPT !.calls[k].st = "pages", !.progress = 15]
    /\ UNCHANGED AnFrame

AnRejectedUnknown(k, msg) ==
    [an EXCEPT !.calls[k].st = "rejected",
               !.calls[k].rejectedWith = msg,
               !.error = UnknownAnalysisMsg,
               !.analysis = 0,
               !.isAnalyzing = FALSE,
               !.settled = Append(@, k)]

\* analyzePDF rejects with an error of message msg: the catch and the
\* finally of analyze
AnRejected(k, msg) ==
    [an EXCEPT !.calls[k].st = "rejected",
               !.calls[k].rejectedWith = msg,
               !.error = IF msg = "" THEN UnknownAnalysisMsg ELSE msg,
               !.analysis = 0,
               !.isAnalyzing = FALSE,
               !.settled = Append(@, k)]

\* the throw of analyzePDF when pdfjs is missing reaches the catch
AnThrown(k) ==
    /\ an.calls[k].st = "thrown"
    /\ an' = AnRejected(k, NoPdfjsAnalysisMsg)
    /\ UNCHANGED AnFrame

\* file.arrayBuffer(), getDocument or a read of a page rejects
AnFail(k, msg) ==
    /\ an.calls[k].st \in {"buffer", "open", "pages"}
    /\ an' = AnRejected(k, msg)
    /\ UNCHANGED AnFrame

\* analyzePDF resolves: setAnalysis(result), then the finally
AnDone(k) ==
    /\ an.calls[k].st = "pages"
    /\ an' = [an EXCEPT !.calls[k].st = "resolved",
                        !.analysis = k,
                        !.progress = 100,
                        !.isAnalyzing = FALSE,
                        !.settled = Append(@, k)]
    /\ UNCHANGED AnFrame

InitAnalyzer ==
    /\ InitConversion
    /\ pdfjsOk
    /\ hwConcurrency = 1
    /\ theme = ThemeIdle
    /\ fx = FxIdle
    /\ ka = KaIdle
    /\ an \in { AnMounted(b) : b \in BOOLEAN }
    /\ app = AppIdle

NextAnalyzer ==
    \/ Analyze
    \/ \E k \in Calls : AnBufferDone(k)
    \/ \E k \in Calls : AnOpenDone(k)
    \/ \E k \in Calls : AnThrown(k)
    \/ \E k \in Calls, msg \in ErrSamples : AnFail(k, msg)
    \/ \E k \in Calls : AnDone(k)

SpecAnalyzer == InitAnalyzer /\ [][NextAnalyzer]_vars

\* ====================================================== keep-alive (V5)
KaFrame == << convVars, seq, onePage, theme, fx, an, app >>

\* start() from "2. Screen Wake Lock" on, for the object k: the request is
\* awaited when navigator has wakeLock, else the interval is scheduled
KaWakeLockStep(k, c) ==
    IF k.hasWakeLock
    THEN [k EXCEPT !.starts[c] = "lock"]
    ELSE [k EXCEPT !.starts[c] = "done",
                   !.intervals = @ + 1,
                   !.intervalRef = TRUE]

\* start() from its first line up to its first await or its end
KaStartCall(k, c) ==
    IF k.isActive
    THEN [k EXCEPT !.starts[c] = "returned"]
    ELSE LET a == [k EXCEPT !.isActive = TRUE] IN
         IF a.hasAudio
         THEN LET b == [a EXCEPT !.audioOpen = @ + 1,
                                 !.ctxRef = TRUE,
                                 !.oscRef = TRUE] IN
              IF b.ctxSuspended
              THEN [b EXCEPT !.starts[c] = "resume"]
              ELSE KaWakeLockStep(b, c)
         ELSE KaWakeLockStep(a, c)

KaStartOver(k, c) == k.starts[c] \in {"returned", "done"}

\* a conversion calls backgroundKeepAlive.start(): awaited (part_002:17)
\* or not (part_003:17)
KaBegin(c, awaited) ==
    /\ ka.conv[c] = "idle"
    /\ LET k == KaStartCall(ka, c) IN
       ka' = [k EXCEPT !.conv[c] =
                 IF awaited /\ ~KaStartOver(k, c)
                 THEN "awaitStart" ELSE "running"]
    /\ UNCHANGED KaFrame

\* the conversion awaiting start() goes on when start() is over
KaResumed(k, c) ==
    IF k.conv[c] = "awaitStart" /\ KaStartOver(k, c)
    THEN [k EXCEPT !.conv[c] = "running"]
    ELSE k

\* audioCtx.resume() resolved
KaResumeDone(c) ==
    /\ ka.starts[c] = "resume"
    /\ ka' = KaResumed(KaWakeLockStep(ka, c), c)
    /\ UNCHANGED KaFrame

\* audioCtx.resume() rejected: the outer catch of start()
KaResumeFail(c) ==
    /\ ka.starts[c] = "resume"
    /\ ka' = KaResumed([ka EXCEPT !.starts[c] = "done"], c)
    /\ UNCHANGED KaFrame

\* wakeLock.request resolved in start(): the lock is stored, the listener
\* added and the interval scheduled
KaLockGranted(c) ==
    /\ ka.starts[c] = "lock"
    /\ ka' = KaResumed([ka EXCEPT !.starts[c] = "done",
                                  !.lockRef = "startHeld",
                                  !.locksHeld = @ + 1,
                                  !.intervals = @ + 1,
                                  !.intervalRef = TRUE], c)
    /\ UNCHANGED KaFrame

\* wakeLock.request rejected in start(): the inner catch, then the interval
KaLockDenied(c) ==
    /\ ka.starts[c] = "lock"
    /\ ka' = KaResumed([ka EXCEPT !.starts[c] = "done",
                                  !.intervals = @ + 1,
                                  !.intervalRef = TRUE], c)
    /\ UNCHANGED KaFrame

\* the system releases the lock start() stored: its 'release' listener
\* calls reacquireWakeLock() when isActive, which awaits a new request
\* (one reacquireWakeLock() is followed at a time)
KaSystemRelease ==
    /\ ka.lockRef = "startHeld"
    /\ ~ka.reacquiring
    /\ ka' = [ka EXCEPT !.lockRef = "released",
                        !.locksHeld = @ - 1,
                        !.reacquiring = ka.isActive /\ ka.hasWakeLock]
    /\ UNCHANGED KaFrame

\* wakeLock.request resolved in reacquireWakeLock(): the lock is stored
KaReacquireGranted ==
    /\ ka.reacquiring
    /\ ka' = [ka EXCEPT !.reacquiring = FALSE,
                        !.lockRef = "reacquired",
                        !.locksHeld = @ + 1]
    /\ UNCHANGED KaFrame

\* wakeLock.request rejected in reacquireWakeLock()
KaReacquireDenied ==
    /\ ka.reacquiring
    /\ ka' = [ka EXCEPT !.reacquiring = FALSE]
    /\ UNCHANGED KaFrame

\* stop()
KaStopCall(k) ==
    IF ~k.isActive THEN k
    ELSE [k EXCEPT !.isActive = FALSE,
                   !.intervals = IF k.intervalRef THEN @ - 1 ELSE @,
                   !.intervalRef = FALSE,
                   !.oscRef = FALSE,
                   !.audioOpen = IF k.ctxRef THEN @ - 1 ELSE @,
                   !.ctxRef = FALSE,
                   !.locksHeld =
                       IF k.lockRef \in {"startHeld", "reacquired"}
                       THEN @ - 1 ELSE @,
                   !.lockRef = "none"]

\* the conversion ends: finally { backgroundKeepAlive.stop(); }
KaEnd(c) ==
    /\ ka.conv[c] = "running"
    /\ ka' = [KaStopCall(ka) EXCEPT !.conv[c] = "done"]
    /\ UNCHANGED KaFrame

InitKaV5 ==
    /\ InitConversion
    /\ pdfjsOk
    /\ hwConcurrency = 1
    /\ theme = ThemeIdle
    /\ fx = FxIdle
    /\ ka \in { KaV5(a, s, w) : a \in BOOLEAN, s \in BOOLEAN, w \in BOOLEAN }
    /\ an = AnIdle
    /\ app = AppIdle

NextKaV5 ==
    \/ \E c \in Convs, awaited \in BOOLEAN : KaBegin(c, awaited)
    \/ \E c \in Convs : KaResumeDone(c)
    \/ \E c \in Convs : KaResumeFail(c)
    \/ \E c \in Convs : KaLockGranted(c)
    \/ \E c \in Convs : KaLockDenied(c)
    \/ KaSystemRelease
    \/ KaReacquireGranted
    \/ KaReacquireDenied
    \/ \E c \in Convs : KaEnd(c)

SpecKaV5 == InitKaV5 /\ [][NextKaV5]_vars

\* ========================================= keep-alive (silent oscillator)
\* the singleton of backgroundKeepAlive.ts before any start(): whether a
\* new AudioContext starts suspended; isActive; audioCtx and gainNode as
\* references; the state of the node this.oscillator refers to ("none" for
\* null); the oscillators running; the calls made, those that caught a
\* throw, and the calls of audioCtx.resume()
KaOsc(ctxSuspended) ==
    [ ctxSuspended |-> ctxSuspended, isActive |-> FALSE, ctxRef |-> FALSE,
      gainRef |-> FALSE, osc |-> "none", running |-> 0,
      calls |-> 0, caught |-> 0, resumes |-> 0 ]

\* the steps of start() and of stop() that call into the browser
StartSteps ==
    << "AudioContext", "createOscillator", "createGain", "connect",
       "start" >>

StopSteps == << "stop", "oscillator.disconnect", "gainNode.disconnect" >>

StepIndex(steps, name) ==
    IF \E i \in 1..Len(steps) : steps[i] = name
    THEN CHOOSE i \in 1..Len(steps) : steps[i] = name
    ELSE Len(steps) + 1

\* start() in which the step throwAt throws ("none": no step does); n is
\* the number of steps that complete
OscStart(k, throwAt) ==
    IF k.isActive THEN k
    ELSE LET n == StepIndex(StartSteps, throwAt) - 1
             ctx == k.ctxRef \/ n >= 1
         IN  [k EXCEPT
                !.ctxRef = ctx,
                !.resumes = IF ctx /\ k.ctxSuspended THEN @ + 1 ELSE @,
                !.osc = IF n >= 5 THEN "running"
                        ELSE IF n >= 2 THEN "created" ELSE @,
                !.gainRef = @ \/ n >= 3,
                !.running = IF n >= 5 THEN @ + 1 ELSE @,
                !.isActive = n >= 5,
                !.caught = IF n < 5 THEN @ + 1 ELSE @]

\* stop() in which the step throwAt throws
OscStop(k, throwAt) ==
    IF ~k.isActive THEN k
    ELSE LET n == StepIndex(StopSteps, throwAt) - 1 IN
         [k EXCEPT
            !.osc = IF k.osc = "running" /\ n >= 1 THEN "stopped" ELSE @,
            !.running = IF k.osc = "running" /\ n >= 1 THEN @ - 1 ELSE @,
            !.isActive = n < 3,
            !.caught = IF n < 3 THEN @ + 1 ELSE @]

\* a step that throws is one the call reaches
Reached(k, steps, throwAt) ==
    \/ throwAt = "none"
    \/ /\ \E i \in 1..Len(steps) : steps[i] = throwAt
       /\ throwAt = "AudioContext" => ~k.ctxRef

KaOscStart(throwAt) ==
    /\ ka.calls < MaxKaCalls
    /\ Reached(ka, StartSteps, throwAt)
    /\ ka' = [OscStart(ka, throwAt) EXCEPT !.calls = @ + 1]
    /\ UNCHANGED KaFrame

KaOscStop(throwAt) ==
    /\ ka.calls < MaxKaCalls
    /\ Reached(ka, StopSteps, throwAt)
    /\ ka' = [OscStop(ka, throwAt) EXCEPT !.calls = @ + 1]
    /\ UNCHANGED KaFrame

InitKaOsc ==
    /\ InitConversion
    /\ pdfjsOk
    /\ hwConcurrency = 1
    /\ theme = ThemeIdle
    /\ fx = FxIdle
    /\ ka \in { KaOsc(b) : b \in BOOLEAN }
    /\ an = AnIdle
    /\ app = AppIdle

NextKaOsc ==
    \/ \E t \in {"none"} \cup { StartSteps[i] : i \in 1..Len(StartSteps) } :
          KaOscStart(t)
    \/ \E t \in {"none"} \cup { StopSteps[i] : i \in 1..Len(StopSteps) } :
          KaOscStop(t)

SpecKaOsc == InitKaOsc /\ [][NextKaOsc]_vars

\* ==================================================================== App
AppFrame == << convVars, seq, onePage, theme, fx, ka, an >>

\* handleFile(f), offered by the upload zone while state is "idle", up to
\* its await of analyzePDF
AppHandleFile(isPdf) ==
    /\ app.state = "idle"
    /\ app.selected < MaxRuns
    /\ LET k == app.selected + 1 IN
       app' = IF isPdf
              THEN [app EXCEPT !.selected = k,
                               !.untilNewFile = FALSE,
                               !.file = k,
                               !.state = "analyzing",
                               !.error = "",
                               !.convertedUrl = 0,
                               !.jobs[k].analysis = "pending"]
              ELSE [app EXCEPT !.selected = k,
                               !.untilNewFile = FALSE,
                               !.error = NotPdfMsg,
                               !.state = "error"]
    /\ UNCHANGED AppFrame

\* analyzePDF of the k-th file resolved
AppAnalysisDone(k) ==
    /\ app.jobs[k].analysis = "pending"
    /\ app' = [app EXCEPT !.jobs[k].analysis = "resolved",
                          !.analysis = k,
                          !.state = "analyzed"]
    /\ UNCHANGED AppFrame

\* analyzePDF of the k-th file rejected
AppAnalysisFail(k) ==
    /\ app.jobs[k].analysis = "pending"
    /\ app' = [app EXCEPT !.jobs[k].analysis = "rejected",
                          !.error = AnalysisErrMsg,
                          !.state = "error"]
    /\ UNCHANGED AppFrame

\* handleConvert(), offered while state is "analyzed" and analysis is set,
\* up to its await of convertToNativeTextPDF
AppHandleConvert ==
    /\ app.state = "analyzed"
    /\ app.analysis # 0
    /\ app.file # 0
    /\ app.jobs[app.file].convert = "none"
    /\ app' = [app EXCEPT !.state = "converting",
                          !.jobs[app.file].convert = "pending"]
    /\ UNCHANGED AppFrame

\* convertToNativeTextPDF of the k-th file resolved
AppConvertDone(k) ==
    /\ app.jobs[k].convert = "pending"
    /\ app' = [app EXCEPT !.jobs[k].convert = "resolved",
                          !.convertedUrl = k,
                          !.state = "converted"]
    /\ UNCHANGED AppFrame

\* convertToNativeTextPDF of the k-th file rejected
AppConvertFail(k) ==
    /\ app.jobs[k].convert = "pending"
    /\ app' = [app EXCEPT !.jobs[k].convert = "rejected",
                          !.error = ConvertErrMsg,
                          !.state = "error"]
    /\ UNCHANGED AppFrame

\* reset(), offered by the "Novo" button while state is not "idle"
AppReset ==
    /\ app.state # "idle"
    /\ app' = [app EXCEPT !.state = "idle",
                          !.file = 0,
                          !.analysis = 0,
                          !.error = "",
                          !.convertedUrl = 0,
                          !.untilNewFile = TRUE]
    /\ UNCHANGED AppFrame

InitApp ==
    /\ Init
    /\ pdfjsOk
    /\ hwConcurrency = 1

NextApp ==
    \/ \E isPdf \in BOOLEAN : AppHandleFile(isPdf)
    \/ \E k \in Runs : AppAnalysisDone(k)
    \/ \E k \in Runs : AppAnalysisFail(k)
    \/ AppHandleConvert
    \/ \E k \in Runs : AppConvertDone(k)
    \/ \E k \in Runs : AppConvertFail(k)
    \/ AppReset

SpecApp == InitApp /\ [][NextApp]_vars

\* ================================================================== claims
Settled == outcome # "none"
Cancelled == outcome = "rejected" /\ error = CancelMsg
\* every worker was created and added to the scheduler
PoolCreated == numWorkers > 0 /\ workers = numWorkers

\* page p was never fetched, rasterized or submitted to the pool
Untouched(p) ==
    page[p].fetched = 0 /\ page[p].rasterized = 0 /\ page[p].jobs = 0

NonWsCount(t) == Len(StripWs(t))

\* C1: once the scheduler has been created, scheduler.terminate() has been
\* called exactly once whenever the conversion has settled, on every exit
\* path (success, page failure, recognition failure, cancellation).
C1_PoolShutdownOnEveryExit ==
    (Settled /\ PoolCreated) => terminateCalls = 1

\* C2: the pages added to the output document are always 1, 2, ..., n in
\* ascending order, whatever the order in which the pages of a batch
\* completed.
C2_CommitInPageOrder ==
    /\ Len(outDoc) <= numPages
    /\ \A k \in 1..Len(outDoc) : outDoc[k].pageNum = k

\* C2 witness: a batch of three completed in reverse order and is committed.
C2_Witness ==
    /\ completed = << 3, 2, 1 >>
    /\ Len(outDoc) = 3
    /\ page[3].jobs = 1

\* C3: a returned document has exactly numPages pages, page k of the output
\* being source page k; a rejected conversion returns no document.
C3_AllOrNothing ==
    /\ outcome = "resolved" =>
          /\ result.returned
          /\ Len(result.pages) = numPages
          /\ \A k \in 1..numPages : result.pages[k].pageNum = k
    /\ outcome # "resolved" => result = NoDoc

\* C3 witness: a successful conversion of more than one batch.
C3_Witness ==
    /\ outcome = "resolved"
    /\ numWorkers > 1
    /\ numPages > numWorkers

\* C4: if the signal is set when the boundary check of a batch is evaluated,
\* the conversion rejects with the cancellation error and no page of that
\* batch or of a later one is ever fetched, rasterized or submitted.
C4_CancelAtBoundary ==
    (aborted /\ batchStart > abortAt.batch /\ batchStart <= numPages) =>
        /\ Cancelled
        /\ \A p \in Pages : p >= batchStart => Untouched(p)

\* C4 witness: cancelled at the boundary of a batch that is not the first.
C4_Witness ==
    /\ Cancelled
    /\ batchStart > 1
    /\ Len(outDoc) = batchStart - 1
    /\ abortAt.batch = 1

\* C5 (as claimed): a cancellation requested while a batch is in flight,
\* the last batch included, never lets the conversion return a document.
C5_InFlightCancelNeverReturns ==
    abortAt.pc = "awaitBatch" => outcome # "resolved"

\* the batch in flight when the signal was set is the last one
AbortedInLastBatch == abortAt.batch + numWorkers > numPages

SomePageFailed == \E p \in Pages : page[p].st = "failed"

\* C5 (amended): a cancellation requested while a batch is in flight starts
\* no later batch; the pages of that batch run to completion and are
\* committed before the cancellation takes effect; unless that batch is the
\* last one the conversion rejects (as cancelled, or with the failure of a
\* page), and during the last batch the request goes unobserved: the
\* conversion returns the complete document.
C5_InFlightCancel ==
    abortAt.pc = "awaitBatch" =>
        /\ \A p \in Pages : p >= abortAt.batch + numWorkers => Untouched(p)
        /\ Cancelled =>
              /\ batchStart = abortAt.batch + numWorkers
              /\ Len(outDoc) = batchStart - 1
              /\ \A p \in 1..(batchStart - 1) :
                    page[p].st = "resolved" /\ outDoc[p].images = 1
        /\ (Settled /\ ~AbortedInLastBatch) =>
              /\ outcome = "rejected"
              /\ Cancelled \/ SomePageFailed
                           \/ error \in {"embedJpg", "drawText"}
        /\ outcome = "resolved" =>
              /\ AbortedInLastBatch
              /\ Len(result.pages) = numPages

\* C5 witness: the signal was set during the first batch, the pages of that
\* batch were committed and the conversion then rejected as cancelled.
C5_Witness ==
    /\ abortAt.pc = "awaitBatch"
    /\ abortAt.batch = 1
    /\ Cancelled
    /\ Len(outDoc) >= 2

\* the state part of C6: the calls of start() and stop() so far
C6_KeepAliveInv ==
    /\ kaStarts <= 1
    /\ kaStops <= 1
    /\ kaStarts = 1 => (kaStops = 1 <=> Settled)
    /\ kaStarts = 0 => kaStops = 0
    /\ (batchStart > 0 \/ outDoc # << >>) =>
          (kaStarts = 1 /\ pc \notin {"idle", "starting"})

\* C6: once start() was called, stop() is called exactly once, when the
\* conversion settles, on every exit path; no batch starts before start()
\* has resolved, and no page is committed after stop().
C6_KeepAliveScoped ==
    /\ []C6_KeepAliveInv
    /\ [][kaStops = 1 => (outDoc' = outDoc /\ kaStops' = 1)]_vars

\* C6 witness: a recognition failure after a page of an earlier batch was
\* committed; the guard was started and stopped once.
C6_Witness ==
    /\ kaStarts = 1
    /\ kaStops = 1
    /\ error = "recognize"
    /\ Len(outDoc) >= 1

\* C7: a page whose text has more than 20 non-whitespace characters never
\* gets a recognition job; a page with 20 or fewer gets exactly one; no job
\* is submitted for a page before its text was read.
C7_NativeTextSkipsOcr ==
    \A p \in Pages :
        /\ page[p].jobs <= 1
        /\ page[p].jobs = 1 => page[p].existing # NoText
        /\ page[p].existing # NoText =>
              IF NonWsCount(page[p].existing) > NativeTextThreshold
              THEN page[p].jobs = 0
              ELSE page[p].jobs = 1
        /\ (outcome = "resolved" /\ p <= numPages) =>
              page[p].existing # NoText

\* C7 witness: in a finished conversion a page with exactly 20 characters
\* was recognized and a rasterized page with 21 characters was not.
C7_Witness ==
    /\ outcome = "resolved"
    /\ \E p, q \in Pages :
          /\ NonWsCount(page[p].existing) = NativeTextThreshold
          /\ page[p].existing # NoText
          /\ page[p].jobs = 1
          /\ NonWsCount(page[q].existing) = NativeTextThreshold + 1
          /\ page[q].rasterized = 1
          /\ page[q].jobs = 0

\* C8: the percent values passed to onProgress never decrease and lie in
\* [0, 100].  Stated of the sequential conversion: each report is compared
\* with the one before it.
C8_SeqProgressMonotone ==
    /\ FracLeq(seq.prevPct, seq.lastPct)
    /\ FracLeq(Whole(0), seq.lastPct)
    /\ FracLeq(seq.lastPct, Whole(100))

\* The same property of the pooled conversion, over the whole log.
PooledProgressMonotone ==
    \A k \in 1..Len(progressLog) :
        /\ FracLeq(Whole(0), progressLog[k].pct)
        /\ FracLeq(progressLog[k].pct, Whole(100))
        /\ k > 1 => FracLeq(progressLog[k - 1].pct, progressLog[k].pct)

\* C9: every progress value reported for a batch is
\* 10 + (pages committed at the report / numPages) * 85.
C9_BatchProgressCountsCommitted ==
    \A k \in 1..Len(progressLog) :
        progressLog[k].kind = "batch" =>
            FracEq(progressLog[k].pct,
                   Frac(10 * numPages + 85 * progressLog[k].committed,
                        numPages))

\* C10: when a page fails the conversion rejects, no page of the failing
\* batch is committed, no later batch starts, no document is returned, and
\* no page is fetched, rasterized or submitted more than once.
C10_PageFailureIsFatal ==
    /\ \A p \in Pages :
          page[p].fetched <= 1 /\ page[p].rasterized <= 1 /\ page[p].jobs <= 1
    /\ \A p \in Pages : page[p].st = "failed" =>
          /\ outcome = "rejected"
          /\ result = NoDoc
          /\ InBatch(p, batchStart)
          /\ Len(outDoc) = batchStart - 1
          /\ \A q \in Pages : q >= batchStart + numWorkers => Untouched(q)

\* C10 witness: recognition of the second of four pages failed.
C10_Witness ==
    /\ numPages = 4
    /\ page[2].st = "failed"
    /\ page[2].jobs = 1
    /\ error = "recognize"

\* C11: when the conversion has settled, the canvas of every page that was
\* rasterized has been released (width = height = 0).
C11_CanvasReleasedWhenSettled ==
    Settled => \A p \in Pages :
        page[p].rasterized = 1 => page[p].canvas = "released"

\* the recognition jobs submitted to the pool and not yet resolved
InFlightJobs == { p \in Pages : page[p].st = "recognizing" }

\* C12: the jobs in flight never outnumber the workers added to the
\* scheduler, and the workers created never outnumber the pool size.
C12_JobsBoundedByPool ==
    /\ Cardinality(InFlightJobs) <= workers
    /\ workers <= numWorkers
    /\ numWorkers <= MaxPoolSize

\* C12 witness: three jobs in flight on three workers.
C12_Witness ==
    /\ Cardinality(InFlightJobs) = MaxPoolSize
    /\ workers = MaxPoolSize

\* C13: the batches partition 1..numPages: a batch is a contiguous ascending
\* range of at most numWorkers pages that starts right after the previous
\* one, only the last batch is shorter, and when the loop is over every page
\* belonged to exactly one batch.
C13_BatchesPartitionPages ==
    /\ \A p \in Pages : page[p].fetched <= 1
    /\ \A p \in Pages : page[p].fetched = 1 => p <= numPages
    /\ (batchStart >= 1 /\ batchStart <= numPages) =>
          LET b == CurrentBatch(batchStart) IN
          /\ Len(b) >= 1
          /\ Len(b) <= numWorkers
          /\ (batchStart - 1) % numWorkers = 0
          /\ \A j \in 1..Len(b) : b[j] = batchStart + j - 1
          /\ b[Len(b)] <= numPages
          /\ Len(b) < numWorkers => b[Len(b)] = numPages
          /\ \A p \in 1..(batchStart - 1) : page[p].fetched = 1
          /\ ~Cancelled =>
                \A p \in Pages :
                    page[p].fetched = 1 <=> p < batchStart + Len(b)
    /\ batchStart > numPages =>
          \A p \in 1..numPages : page[p].fetched = 1

\* C13 witness: three workers, four pages, the loop is over: the last batch
\* had one page.
C13_Witness ==
    /\ numWorkers = 3
    /\ numPages = 4
    /\ batchStart > numPages
    /\ page[4].fetched = 1

\* C14: while a page of a batch is being worked on, every page of the
\* earlier batches is committed (added, image embedded, text drawn), and no
\* page of a later batch has been touched.
C14_BatchesSequential ==
    \A p \in Pages :
        (batchStart >= 1 /\ p >= batchStart /\ ~Untouched(p)) =>
            /\ p < batchStart + numWorkers
            /\ Len(outDoc) >= batchStart - 1
            /\ \A k \in 1..(batchStart - 1) :
                  /\ outDoc[k].pageNum = k
                  /\ outDoc[k].images = 1
                  /\ page[k].canvas = "released"

\* C14 witness: a page of the second batch is being rendered.
C14_Witness ==
    /\ batchStart > 1
    /\ page[batchStart].st = "rendering"

\* the page of SpecPage was committed with native text
NativeCommitted ==
    /\ onePage.phase = "committed"
    /\ HasNativeText(onePage.existing)

\* the characters of a drawn layer; none when no layer was drawn
LayerChars(l) == IF l = NoLayer THEN << >> ELSE l

\* the characters the cleaning keeps that are not whitespace
KeptInk(t) == SelectSeq(t, LAMBDA c : c \in Latin1Chars \ WhiteSpace)

\* C15 as first stated: the text layer of a committed page with native text
\* equals the extracted native text exactly.
C15_NativeLayerExact ==
    NativeCommitted => onePage.layer = onePage.existing

\* C15: for a committed page whose native text exceeds the threshold, the
\* text layer holds no character outside printable Latin-1 and the line
\* feed, its non-blank characters are those of the native text that lie in
\* that class, in order, no recognition job was submitted, and the layer
\* equals the native text exactly when every character of the native text
\* lies in that class.
C15_NativeLayerIsCleanedText ==
    NativeCommitted =>
        /\ onePage.jobs = 0
        /\ onePage.text = onePage.existing
        /\ \A i \in 1..Len(LayerChars(onePage.layer)) :
              LayerChars(onePage.layer)[i] \in Latin1Chars
        /\ StripWs(LayerChars(onePage.layer)) = KeptInk(onePage.existing)
        /\ (\A i \in 1..Len(onePage.existing) :
                onePage.existing[i] \in Latin1Chars)
              => onePage.layer = onePage.existing

\* C15 witness: a committed page whose native text has a line feed and a
\* character outside Latin-1; the layer was drawn and differs from it.
C15_Witness ==
    /\ NativeCommitted
    /\ \E i \in 1..Len(onePage.existing) : onePage.existing[i] = "€"
    /\ \E i \in 1..Len(onePage.existing) : onePage.existing[i] = "\n"
    /\ onePage.layer # NoLayer
    /\ onePage.layer # onePage.existing

\* C16: the conversion never fails because drawing the text layer of a
\* page failed: the page is still committed.
C16_DrawFailureIsSkipped ==
    ~(outcome = "rejected" /\ error = "drawText")

\* C17: the last progress report of a resolved conversion is 100 with the
\* success message, made after save() was called and resolved with every
\* page committed; a report of 100 or more is made by a resolved conversion
\* only, as its last report, so a rejected conversion never reports 100.
C17_HundredOnlyOnSuccess ==
    /\ outcome = "resolved" =>
          /\ Len(progressLog) > 0
          /\ FracEq(progressLog[Len(progressLog)].pct, Whole(100))
          /\ progressLog[Len(progressLog)].kind = "done"
          /\ progressLog[Len(progressLog)].committed = numPages
          /\ saveCalls = 1
          /\ result.returned
    /\ \A k \in 1..Len(progressLog) :
          (FracLeq(Whole(100), progressLog[k].pct)
             \/ progressLog[k].kind = "done") =>
              /\ outcome = "resolved"
              /\ k = Len(progressLog)

\* C17 witness: a resolved conversion of several pages whose last report
\* is 100.
C17_Witness ==
    /\ outcome = "resolved"
    /\ numPages >= 2
    /\ Len(progressLog) >= 2
    /\ FracEq(progressLog[Len(progressLog)].pct, Whole(100))

\* C18 as first stated: a committed page has exactly one image, and a text
\* layer if and only if its resolved text is not blank.
C18_LayerIffTextNotBlank ==
    onePage.phase = "committed" =>
        /\ onePage.images = 1
        /\ onePage.layer # NoLayer <=> Trim(onePage.text) # << >>

\* C18: a committed page has exactly one embedded image, and a text layer
\* if and only if its resolved text (native or recognized) has a character
\* of printable Latin-1 that is not whitespace; a layer that is drawn is
\* never empty, and a page whose recognition returned the empty string
\* has an image and no layer.
C18_LayerIffTextHasInk ==
    onePage.phase = "committed" =>
        /\ onePage.images = 1
        /\ onePage.layer # NoLayer <=> KeptInk(onePage.text) # << >>
        /\ onePage.layer # << >>
        /\ onePage.text = << >> => onePage.layer = NoLayer

\* C18 witness: a committed page whose recognized text is not blank but
\* has no character the cleaning keeps: an image and no layer.
C18_Witness ==
    /\ onePage.phase = "committed"
    /\ onePage.jobs = 1
    /\ Trim(onePage.text) # << >>
    /\ onePage.images = 1
    /\ onePage.layer = NoLayer

\* save() is called at most once, after the batch loop is over with every
\* page committed in order with its image; a conversion that rejected did
\* not call it, unless it is save() itself that rejected
C19_SaveInv ==
    /\ saveCalls <= 1
    /\ saveCalls = 1 =>
          /\ batchStart > numPages
          /\ terminateCalls = 1
          /\ Len(outDoc) = numPages
          /\ \A k \in 1..numPages :
                outDoc[k].pageNum = k /\ outDoc[k].images = 1
    /\ (outcome = "rejected" /\ error # "save") => saveCalls = 0
    /\ outcome = "resolved" => saveCalls = 1

\* C19: within one conversion save() is called at most once, only after
\* every page of every batch has been committed, and the document is not
\* added to or drawn on afterwards; a conversion that fails or is cancelled
\* before that point never calls save().
C19_SaveOnceAfterAllCommits ==
    /\ []C19_SaveInv
    /\ [][saveCalls = 1 => (outDoc' = outDoc /\ saveCalls' = 1)]_vars

\* C19 witness: save() was called for a document of several batches and
\* resolved.
C19_Witness ==
    /\ saveCalls = 1
    /\ outcome = "resolved"
    /\ numPages > numWorkers
    /\ Len(result.pages) = numPages

\* the state right after the first render: no effect has run, no toggle
ThemeInitial ==
    /\ theme.phase = "mounted"
    /\ theme.applied = "none"
    /\ theme.toggles = 0

\* C20: right after the first render, the theme is dark if and only if the
\* saved preference is "dark", or there is no saved preference (the key is
\* absent or empty) and the system colour scheme is dark.
C20_InitialTheme ==
    ThemeInitial =>
        (theme.isDark <=>
            \/ theme.saved = "dark"
            \/ theme.saved \in {Null, ""} /\ theme.systemDark)

\* the effect has run for the current isDark
ThemeEffectsRun ==
    /\ theme.phase = "mounted"
    /\ theme.applied = ThemeName(theme.isDark)

\* once the effects have run, the class and the stored value follow isDark
C21_ThemeInv ==
    ThemeEffectsRun =>
        /\ theme.rootDark <=> theme.isDark
        /\ theme.saved = "dark" <=> theme.isDark
        /\ theme.saved = "light" <=> ~theme.isDark

\* C21: after the first render and after any sequence of toggle() calls,
\* once the effect has run, the root element has the class "dark" iff
\* isDark, and localStorage holds "dark" iff isDark and "light" otherwise;
\* every toggle() flips isDark and nothing else changes it after the first
\* render, so two consecutive toggles restore it.
C21_ThemeFollowsToggle ==
    /\ []C21_ThemeInv
    /\ [][theme.phase = "mounted" =>
            (theme'.isDark = ~theme.isDark <=>
                theme'.toggles = theme.toggles + 1)]_vars

\* C21 witness: after three toggles and the effect, the hook, the root
\* element and localStorage are all dark.
C21_Witness ==
    /\ ThemeEffectsRun
    /\ theme.toggles = 3
    /\ theme.isDark
    /\ theme.rootDark
    /\ theme.saved = "dark"

\* the positions of the matches of the pair (type, value)
MatchesOf(type, value) ==
    { k \in 1..Len(fx.matches) :
        fx.matches[k].type = type /\ fx.matches[k].value = value }

\* the position of the first match of the pair on page n
FirstOn(type, value, n) ==
    CHOOSE k \in MatchesOf(type, value) :
        /\ fx.matches[k].pageNumber = n
        /\ \A j \in MatchesOf(type, value) :
              fx.matches[j].pageNumber = n => k <= j

RECURSIVE SumOver(_, _)
SumOver(f, S) ==
    IF S = {} THEN 0
    ELSE LET x == CHOOSE x \in S : TRUE IN f[x] + SumOver(f, S \ {x})

\* C22: in the result of extractFieldsFromPages every matched pair (type,
\* value) is in exactly one element of fields; the element's count is the
\* number of its matches over all pages; its pages list holds each page
\* number it was matched on exactly once, in first-seen order; summary[type]
\* is the number of distinct values of the type; totalFound is the length
\* of fields and the sum of the summary.
C22_FieldsConsolidated ==
    fx.phase = "returned" =>
        /\ \A i, j \in 1..Len(fx.fields) :
              (fx.fields[i].type = fx.fields[j].type
                 /\ fx.fields[i].value = fx.fields[j].value) => i = j
        /\ \A k \in 1..Len(fx.matches) :
              \E i \in 1..Len(fx.fields) :
                  /\ fx.fields[i].type = fx.matches[k].type
                  /\ fx.fields[i].value = fx.matches[k].value
        /\ \A i \in 1..Len(fx.fields) :
              LET f == fx.fields[i]
                  M == MatchesOf(f.type, f.value)
              IN  /\ f.count = Cardinality(M)
                  /\ f.count >= 1
                  /\ { f.pages[a] : a \in 1..Len(f.pages) }
                        = { fx.matches[k].pageNumber : k \in M }
                  /\ \A a, b \in 1..Len(f.pages) :
                        a < b => FirstOn(f.type, f.value, f.pages[a])
                                   < FirstOn(f.type, f.value, f.pages[b])
        /\ \A t \in FieldTypes :
              fx.summary[t] =
                  Cardinality({ fx.matches[k].value :
                                  k \in { j \in 1..Len(fx.matches) :
                                            fx.matches[j].type = t } })
        /\ fx.totalFound = Len(fx.fields)
        /\ fx.totalFound = SumOver(fx.summary, FieldTypes)

\* C22 witness: a CPF matched on page 2, then on page 1, then on page 2
\* again, and an e-mail: two fields, the CPF with count 3 and pages 2, 1.
C22_Witness ==
    /\ fx.phase = "returned"
    /\ fx.totalFound = 2
    /\ \E i \in 1..Len(fx.fields) :
          /\ fx.fields[i].type = "cpf"
          /\ fx.fields[i].count = 3
          /\ fx.fields[i].pages = << 2, 1 >>
    /\ fx.summary["email"] = 1

AnPending(k) == an.calls[k].st \in {"thrown", "buffer", "open", "pages"}

\* what the k-th call leaves in the hook when it settles
AnOutcomeHeld(k) ==
    /\ an.calls[k].st = "resolved" =>
          an.analysis = k /\ an.error = Null
    /\ an.calls[k].st = "rejected" =>
          /\ an.analysis = 0
          /\ an.calls[k].rejectedWith # Null
          /\ an.error = IF an.calls[k].rejectedWith = ""
                        THEN UnknownAnalysisMsg
                        ELSE an.calls[k].rejectedWith

\* C23: for a single analyze call, isAnalyzing is true from the call until
\* it settles and false afterwards; after success analysis is the result
\* and error is null; after a failure analysis is null and error is the
\* message of the error analyzePDF rejected with (the fallback text when
\* that message is empty); analysis and error are never both set.
C23_SingleAnalyze ==
    an.started = 1 =>
        /\ an.isAnalyzing <=> AnPending(1)
        /\ AnOutcomeHeld(1)
        /\ AnPending(1) => (an.analysis = 0 /\ an.error = Null)
        /\ ~(an.analysis # 0 /\ an.error # Null)

\* C23 witness: the single call failed because getDocument rejected with
\* "Falha ao abrir PDF", which the hook now holds.
C23_Witness ==
    /\ an.started = 1
    /\ an.calls[1].st = "rejected"
    /\ an.progress = 10
    /\ an.calls[1].rejectedWith = "Falha ao abrir PDF"
    /\ an.error = "Falha ao abrir PDF"
    /\ ~an.isAnalyzing

\* C30: with overlapping analyze calls, isAnalyzing is true while any call
\* is pending, and once every call has settled the hook holds the outcome
\* of the call started last.
C30_LatestAnalyzeWins ==
    /\ (\E k \in Calls : AnPending(k)) => an.isAnalyzing
    /\ (an.started >= 1 /\ \A k \in Calls : ~AnPending(k)) =>
          AnOutcomeHeld(an.started)

\* the map callback of page p is suspended at getPage, render,
\* getTextContent or addJob
PageWorkInFlight(p) ==
    page[p].st \in {"fetching", "rendering", "reading", "recognizing"}

\* C24: once the conversion has settled, no page is being fetched,
\* rendered, read or recognized.
C24_NoPageWorkAfterSettle ==
    Settled => \A p \in Pages : ~PageWorkInFlight(p)

\* C25: when the creation of a worker fails after at least one worker was
\* added to the scheduler, the scheduler has been terminated by the time
\* the conversion has rejected with the engine error, no page was
\* rasterized and no output page exists.
C25_PoolInitFailureCleansUp ==
    (outcome = "rejected" /\ error = OcrInitMsg /\ workers >= 1) =>
        /\ terminateCalls = 1
        /\ \A p \in Pages : Untouched(p)
        /\ outDoc = << >>

\* C26: while a conversion is running between its start() and its stop(),
\* the guard is active, also when another conversion has finished and
\* called stop().
C26_GuardActiveWhileAnyRuns ==
    \A c \in Convs : ka.conv[c] = "running" => ka.isActive

KaStartExecuting == \E c \in Convs : ka.starts[c] \in {"resume", "lock"}

\* C27: whenever isActive is false and no start() is executing, no
\* interval is scheduled, no audio context is open and no wake lock is
\* held.
C27_InactiveHoldsNothing ==
    (~ka.isActive /\ ~KaStartExecuting) =>
        /\ ka.intervals = 0
        /\ ka.audioOpen = 0
        /\ ka.locksHeld = 0

\* C28: at most one oscillator is running, and isActive is true exactly
\* when the oscillator start() created is running, also after a call in
\* which a step threw and was caught.
C28_ActiveIffOscillatorRuns ==
    /\ ka.running <= 1
    /\ ka.isActive <=> (ka.osc = "running" /\ ka.running = 1)

\* C29: after reset() and until a file is selected, there is no converted
\* URL and the abandoned conversion has not moved the app to "converted"
\* or, by failing, to "error".
C29_ResetAbandonsConversion ==
    app.untilNewFile =>
        /\ app.convertedUrl = 0
        /\ app.state # "converted"
        /\ ~(app.state = "error" /\ app.error = ConvertErrMsg)

====
